---- MODULE Spec2Model ----
(***************************************************************************)
(* text-tables: render(writer, data) of src/src/lib.rs as a state machine. *)
(* One call of render is a run of the machine: the width pass (widths),    *)
(* then the border and text lines, one write! on the sink per step.  The   *)
(* sink may fail at any write.  A caller that renders the same table a     *)
(* second time into a fresh sink (examples/simple.rs) is the action Again. *)
(***************************************************************************)
EXTENDS Integers, Sequences, FiniteSets, TLC

\* ------------------------------------------------------------ bounds
MaxRows == 2
MaxCols == 2
MaxCells == 4

\* ------------------------------------------------------------ constants
CORNER_STR == "+"
HORIZ_BORDER_STR == "-"
VERT_BORDER_STR == "|"
SPACE_STR == " "
NEW_LINE_STR == "\n"

\* ------------------------------------------------------------ cells (C: Display)
\* A cell is any Display value: a text (a sequence of characters) or a number.
Str(s) == [kind |-> "str", text |-> s, num |-> 0]
Num(n) == [kind |-> "num", text |-> <<>>, num |-> n]

\* The cells the tables are drawn from: the empty text, a one-byte text, a
\* text of one character that takes two bytes in UTF-8, and a negative number.
CellValues == {Str(<<>>), Str(<<"a">>), Str(<<"eacute">>), Num(-7)}

\* The bytes of one character in UTF-8.
Utf8(ch) == IF ch = "eacute" THEN <<"C3", "A9">> ELSE <<ch>>

RECURSIVE EncodeStr(_)
EncodeStr(s) == IF s = <<>> THEN <<>> ELSE Utf8(Head(s)) \o EncodeStr(Tail(s))

DigitChar(d) == <<"0", "1", "2", "3", "4", "5", "6", "7", "8", "9">>[d + 1]

RECURSIVE Digits(_)
Digits(n) == IF n < 10 THEN <<DigitChar(n)>>
             ELSE Digits(n \div 10) \o <<DigitChar(n % 10)>>

\* write!(string_buf, "{}", cell) on a cleared buffer: the cell's display bytes.
Display(cell) == IF cell.kind = "str" THEN EncodeStr(cell.text)
                 ELSE IF cell.num < 0 THEN <<"-">> \o Digits(0 - cell.num)
                 ELSE Digits(cell.num)

\* ------------------------------------------------------------ inputs
SeqsUpTo(S, n) == UNION {[1..m -> S] : m \in 0..n}

RECURSIVE CellCount(_)
CellCount(t) == IF t = <<>> THEN 0 ELSE Len(Head(t)) + CellCount(Tail(t))

\* Every table of the bounds, ragged ones included.
Tables == {t \in SeqsUpTo(SeqsUpTo(CellValues, MaxCols), MaxRows) : CellCount(t) <= MaxCells}

\* The errors the sink can raise.
SinkErrors == {"BrokenPipe", "WriteZero"}
WriteOutcomes == {"ok"} \cup SinkErrors

\* ------------------------------------------------------------ state
VARIABLES
  table,       \* the caller's table (examples/simple.rs: data)
  data,        \* render's view of it: data.as_ref()
  call,        \* "first" or "second" call of render on the table
  prevOut,     \* the bytes the first call wrote to its sink
  pc,          \* position in render / widths / render_border_line / render_text_line
  widths,      \* Vec<usize> of widths(), then render's `widths`
  string_buf,  \* the scratch String of widths() and of render_text_line()
  r,           \* row index of the running loop over data.iter() (0: before the first row)
  c,           \* column index of the running loop over cells / lengths
  k,           \* counter of the running `for _ in 0..n` loop
  extra,       \* render_text_line's `extra`
  out,         \* the bytes the sink has accepted in this call
  attempts,    \* write calls made on the sink in this call
  failedAt,    \* the number of the write call that failed (0: none)
  sinkErr,     \* the error the sink raised ("none": none)
  result       \* what render returned: tag none | Ok | Err | panic | wrapped

vars == <<table, data, call, prevOut, pc, widths, string_buf, r, c, k, extra,
          out, attempts, failedAt, sinkErr, result>>

NoResult == [tag |-> "none", err |-> "none"]
OkResult == [tag |-> "Ok", err |-> "none"]
ErrResult(e) == [tag |-> "Err", err |-> e]
PanicResult(msg) == [tag |-> "panic", err |-> msg]
\* with overflow checks off, line 116 wraps and the padding loop runs for about
\* 2^64 writes: the model stops following the call there.
WrappedResult == [tag |-> "wrapped", err |-> "none"]

Init ==
  /\ table \in Tables
  /\ data = table
  /\ call = "first"
  /\ prevOut = <<>>
  /\ pc = "widths"
  /\ widths = <<>>
  /\ string_buf = <<>>
  /\ r = 0
  /\ c = 0
  /\ k = 0
  /\ extra = 0
  /\ out = <<>>
  /\ attempts = 0
  /\ failedAt = 0
  /\ sinkErr = "none"
  /\ result = NoResult

\* ------------------------------------------------------------ helpers of the code
\* a width vector kept from the call before and extended, instead of a new one
ZeroVecStale(n) == widths \o [i \in 1..n |-> 0]

\* vec![0; row_len]
ZeroVec(n) == [i \in 1..n |-> 0]

\* the comparison the wrong way round
CmpMin(a, b) == IF a <= b THEN a ELSE b

\* the width of the last row seen instead of the largest
CmpLast(a, b) == b

\* cmp::max
CmpMax(a, b) == IF a >= b THEN a ELSE b

\* only a longer row is refused
RowLonger(row_len, row) == row_len < Len(row)

\* row_len != row.len()
RowLenMismatch(row_len, row) == row_len # Len(row)

\* the border line's guard without the test for no column
BorderSkipZeroOnly(lengths) == Len(lengths) > 0 /\ lengths[1] = 0

\* lengths.len() == 0 || lengths[0] == 0 in render_border_line
BorderSkip(lengths) == Len(lengths) = 0 \/ lengths[1] = 0

\* the text line's guard without the test of the first width
TextSkipEmptyOnly(lengths) == Len(lengths) = 0

\* lengths.len() == 0 || lengths[0] == 0 in render_text_line
TextSkip(lengths) == Len(lengths) = 0 \/ lengths[1] = 0

\* one dash too few
DashCountShort(len) == len + 1

\* 0..(*len + 2): the dashes of one column
DashCount(len) == len + 2

\* 0..extra + 1: the trailing spaces of one cell
PadCount(e) == e + 1

\* row.iter().zip(lengths.iter()) stops at the shorter of the two
ZipLen(row, lengths) == IF Len(row) <= Len(lengths) THEN Len(row) ELSE Len(lengths)

\* the result of a write! dropped instead of propagated
PropagatesNever(res) == FALSE

\* the `?` after a write!: an Err leaves render at once
Propagates(res) == res # "ok"

RECURSIVE Concat(_)
Concat(pieces) == IF pieces = <<>> THEN <<>> ELSE Head(pieces) \o Concat(Tail(pieces))

\* The pieces of a write! that reach the sink: write_all of an empty string
\* makes no call on it.
NonEmpty(pieces) == SelectSeq(pieces, LAMBDA p : p # <<>>)

\* The piece a failing write! fails at: any of them.
FailPoints(pieces, res) == IF res = "ok" THEN {Len(pieces)} ELSE 1..Len(pieces)

\* One write! on the sink: a write_all per piece, in order, up to and with the
\* first that fails (piece j); the sink keeps the pieces before it.
SinkWrite(pieces, res, j) ==
  /\ attempts' = attempts + j
  /\ out' = IF res = "ok" THEN out \o Concat(pieces) ELSE out \o Concat(SubSeq(pieces, 1, j - 1))
  /\ sinkErr' = IF res = "ok" THEN sinkErr ELSE res
  /\ failedAt' = IF res # "ok" /\ failedAt = 0 THEN attempts + j ELSE failedAt

\* render returns Err(e): its locals are dropped.
ReturnErr(e) ==
  /\ pc' = "done"
  /\ result' = ErrResult(e)
  /\ UNCHANGED <<widths, string_buf, r, c, k, extra>>

\* ------------------------------------------------------------ widths(), lines 56-85
\* lines 63-71: the empty table returns vec![], else the loop over the rows starts
WidthsEnter ==
  /\ pc = "widths"
  /\ string_buf' = <<>>
  /\ IF Len(data) = 0
     THEN /\ widths' = <<>>
          /\ pc' = "border"
          /\ r' = 0
     ELSE /\ widths' = ZeroVec(Len(data[1]))
          /\ pc' = "widths_row"
          /\ r' = 1
  /\ UNCHANGED <<table, data, call, prevOut, c, k, extra, out, attempts, failedAt,
                 sinkErr, result>>

\* lines 72-77 and 84: the next row's length check, or the return of the widths
WidthsRow ==
  /\ pc = "widths_row"
  /\ IF r > Len(data)
     THEN /\ pc' = "border"
          /\ r' = 0
          /\ c' = 0
          /\ string_buf' = <<>>
          /\ result' = result
     ELSE IF RowLenMismatch(Len(data[1]), data[r])
     THEN /\ pc' = "done"
          /\ result' = PanicResult("rows must be the same length")
          /\ UNCHANGED <<r, c, string_buf>>
     ELSE IF Len(data[r]) = 0
     THEN /\ pc' = "widths_row"
          /\ r' = r + 1
          /\ UNCHANGED <<c, string_buf, result>>
     ELSE /\ pc' = "widths_cell"
          /\ c' = 1
          /\ UNCHANGED <<r, string_buf, result>>
  /\ UNCHANGED <<table, data, call, prevOut, widths, k, extra, out, attempts,
                 failedAt, sinkErr>>

\* lines 78-82: one cell of the row: clear, write!, max
WidthsCell ==
  /\ pc = "widths_cell"
  /\ IF c > Len(widths)
     THEN /\ pc' = "done"
          /\ result' = PanicResult("index out of bounds")
          /\ UNCHANGED <<widths, string_buf, r, c>>
     ELSE /\ string_buf' = Display(data[r][c])
          /\ widths' = [widths EXCEPT ![c] = CmpMax(widths[c], Len(Display(data[r][c])))]
          /\ result' = result
          /\ IF c < Len(data[r])
             THEN /\ c' = c + 1
                  /\ pc' = "widths_cell"
                  /\ r' = r
             ELSE /\ c' = 0
                  /\ pc' = "widths_row"
                  /\ r' = r + 1
  /\ UNCHANGED <<table, data, call, prevOut, k, extra, out, attempts, failedAt, sinkErr>>

\* ------------------------------------------------------------ render(), lines 42-49
\* A border line returned Ok: the next row's text line, or Ok(()) after the last.
AfterBorder ==
  IF r < Len(data)
  THEN /\ r' = r + 1
       /\ pc' = "text"
       /\ result' = result
  ELSE /\ r' = r
       /\ pc' = "done"
       /\ result' = OkResult

\* ------------------------------------------------------------ render_border_line(), lines 88-100
\* lines 89-92: the early return, or the first corner
BorderEnter ==
  /\ pc = "border"
  /\ IF BorderSkip(widths)
     THEN /\ AfterBorder
          /\ UNCHANGED <<c, k, out, attempts, failedAt, sinkErr, widths, string_buf, extra>>
     ELSE \E res \in WriteOutcomes :
            /\ SinkWrite(<<<<CORNER_STR>>>>, res, 1)
            /\ IF Propagates(res)
               THEN ReturnErr(res)
               ELSE /\ pc' = "border_col"
                    /\ c' = 1
                    /\ k' = 0
                    /\ UNCHANGED <<widths, string_buf, r, extra, result>>
  /\ UNCHANGED <<table, data, call, prevOut>>

\* lines 94-96: one dash
BorderDash ==
  /\ pc = "border_col"
  /\ c <= Len(widths)
  /\ k < DashCount(widths[c])
  /\ \E res \in WriteOutcomes :
       /\ SinkWrite(<<<<HORIZ_BORDER_STR>>>>, res, 1)
       /\ IF Propagates(res)
          THEN ReturnErr(res)
          ELSE /\ k' = k + 1
               /\ UNCHANGED <<pc, widths, string_buf, r, c, extra, result>>
  /\ UNCHANGED <<table, data, call, prevOut>>

\* line 97: the corner that closes a column
BorderCorner ==
  /\ pc = "border_col"
  /\ c <= Len(widths)
  /\ k >= DashCount(widths[c])
  /\ \E res \in WriteOutcomes :
       /\ SinkWrite(<<<<CORNER_STR>>>>, res, 1)
       /\ IF Propagates(res)
          THEN ReturnErr(res)
          ELSE /\ c' = c + 1
               /\ k' = 0
               /\ UNCHANGED <<pc, widths, string_buf, r, extra, result>>
  /\ UNCHANGED <<table, data, call, prevOut>>

\* line 99: the newline, and the return to render
BorderNewline ==
  /\ pc = "border_col"
  /\ c > Len(widths)
  /\ \E res \in WriteOutcomes :
       /\ SinkWrite(<<<<"\n">>>>, res, 1)
       /\ IF Propagates(res)
          THEN ReturnErr(res)
          ELSE /\ AfterBorder
               /\ c' = 0
               /\ UNCHANGED <<widths, string_buf, k, extra>>
  /\ UNCHANGED <<table, data, call, prevOut>>

\* ------------------------------------------------------------ render_text_line(), lines 103-126
\* lines 108-112: the early return, or the scratch buffer and the first bar
TextEnter ==
  /\ pc = "text"
  /\ IF TextSkip(widths)
     THEN /\ pc' = "border"
          /\ UNCHANGED <<c, k, out, attempts, failedAt, sinkErr, widths, string_buf,
                         extra, r, result>>
     ELSE \E res \in WriteOutcomes :
            /\ SinkWrite(<<<<VERT_BORDER_STR>>>>, res, 1)
            /\ IF Propagates(res)
               THEN ReturnErr(res)
               ELSE /\ pc' = "text_cell"
                    /\ c' = 1
                    /\ string_buf' = <<>>
                    /\ UNCHANGED <<widths, r, k, extra, result>>
  /\ UNCHANGED <<table, data, call, prevOut>>

\* lines 113-117: one cell: clear, write! into the buffer, extra, then the
\* space and the text.  A subtraction that would go below zero panics when
\* overflow checks are on and wraps when they are off.
TextCell ==
  /\ pc = "text_cell"
  /\ c <= ZipLen(data[r], widths)
  /\ IF widths[c] < Len(Display(data[r][c]))
     THEN /\ \E o \in {PanicResult("attempt to subtract with overflow"), WrappedResult} :
               result' = o
          /\ pc' = "done"
          /\ string_buf' = Display(data[r][c])
          /\ UNCHANGED <<widths, r, c, k, extra, out, attempts, failedAt, sinkErr>>
     ELSE \E res \in WriteOutcomes :
          \E j \in FailPoints(NonEmpty(<< <<SPACE_STR>>, Display(data[r][c]) >>), res) :
            /\ SinkWrite(NonEmpty(<< <<SPACE_STR>>, Display(data[r][c]) >>), res, j)
            /\ IF Propagates(res)
               THEN ReturnErr(res)
               ELSE /\ string_buf' = Display(data[r][c])
                    /\ extra' = widths[c] - Len(Display(data[r][c]))
                    /\ k' = 0
                    /\ pc' = "text_pad"
                    /\ UNCHANGED <<widths, r, c, result>>
  /\ UNCHANGED <<table, data, call, prevOut>>

\* lines 118-120: one trailing space
TextPad ==
  /\ pc = "text_pad"
  /\ k < PadCount(extra)
  /\ \E res \in WriteOutcomes :
       /\ SinkWrite(<<<<SPACE_STR>>>>, res, 1)
       /\ IF Propagates(res)
          THEN ReturnErr(res)
          ELSE /\ k' = k + 1
               /\ UNCHANGED <<pc, widths, string_buf, r, c, extra, result>>
  /\ UNCHANGED <<table, data, call, prevOut>>

\* line 121: the bar that closes a cell
TextVert ==
  /\ pc = "text_pad"
  /\ k >= PadCount(extra)
  /\ \E res \in WriteOutcomes :
       /\ SinkWrite(<<<<VERT_BORDER_STR>>>>, res, 1)
       /\ IF Propagates(res)
          THEN ReturnErr(res)
          ELSE /\ c' = c + 1
               /\ k' = 0
               /\ extra' = 0
               /\ pc' = "text_cell"
               /\ UNCHANGED <<widths, string_buf, r, result>>
  /\ UNCHANGED <<table, data, call, prevOut>>

\* lines 123-125: the newline, and the return to render's border line
TextNewline ==
  /\ pc = "text_cell"
  /\ c > ZipLen(data[r], widths)
  /\ \E res \in WriteOutcomes :
       /\ SinkWrite(<<<<NEW_LINE_STR>>>>, res, 1)
       /\ IF Propagates(res)
          THEN ReturnErr(res)
          ELSE /\ pc' = "border"
               /\ c' = 0
               /\ string_buf' = <<>>
               /\ UNCHANGED <<widths, r, k, extra, result>>
  /\ UNCHANGED <<table, data, call, prevOut>>

\* ------------------------------------------------------------ the caller
\* examples/simple.rs lines 10-14: the same table rendered again, into another sink
Again ==
  /\ pc = "done"
  /\ result = OkResult
  /\ call = "first"
  /\ call' = "second"
  /\ prevOut' = out
  /\ data' = table
  /\ pc' = "widths"
  /\ out' = <<>>
  /\ attempts' = 0
  /\ failedAt' = 0
  /\ sinkErr' = "none"
  /\ result' = NoResult
  /\ r' = 0
  /\ c' = 0
  /\ k' = 0
  /\ extra' = 0
  /\ UNCHANGED <<table, widths, string_buf>>

Next ==
  \/ WidthsEnter
  \/ WidthsRow
  \/ WidthsCell
  \/ BorderEnter
  \/ BorderDash
  \/ BorderCorner
  \/ BorderNewline
  \/ TextEnter
  \/ TextCell
  \/ TextPad
  \/ TextVert
  \/ TextNewline
  \/ Again

Spec == Init /\ [][Next]_vars

\* ------------------------------------------------------------ reading the output
\* What the claims say of a table and of the bytes on the sink, computed from
\* the table and from `out` alone.
Rectangular(t) == \A i \in 1..Len(t) : Len(t[i]) = Len(t[1])

NCols(t) == IF Len(t) = 0 THEN 0 ELSE Len(t[1])

SetMax(S) == CHOOSE m \in S : \A x \in S : m >= x

\* the width of column i: the longest display text of its cells, in bytes
ColWidth(t, i) == SetMax({Len(Display(t[j][i])) : j \in 1..Len(t)})

Repeat(ch, n) == [i \in 1..n |-> ch]

\* out ends with its last line's newline
Terminated(bytes) == bytes = <<>> \/ bytes[Len(bytes)] = NEW_LINE_STR

\* the lines of bytes, without their newlines (an unterminated rest is the last)
RECURSIVE SplitLines(_, _)
SplitLines(bytes, cur) ==
  IF bytes = <<>> THEN (IF cur = <<>> THEN <<>> ELSE <<cur>>)
  ELSE IF Head(bytes) = NEW_LINE_STR THEN <<cur>> \o SplitLines(Tail(bytes), <<>>)
  ELSE SplitLines(Tail(bytes), Append(cur, Head(bytes)))

Lines(bytes) == SplitLines(bytes, <<>>)

\* the lines of bytes that their newline has ended
CompleteLines(bytes) ==
  IF Terminated(bytes) THEN Lines(bytes) ELSE SubSeq(Lines(bytes), 1, Len(Lines(bytes)) - 1)

IsBorderLine(L) == Len(L) > 0 /\ L[1] = CORNER_STR
IsContentLine(L) == Len(L) > 0 /\ L[1] = VERT_BORDER_STR

CountLines(ls, P(_)) == Cardinality({n \in 1..Len(ls) : P(ls[n])})

\* the offset in a line of the delimiter before column i (after the last: i = NCols + 1)
RECURSIVE DelimOffset(_, _)
DelimOffset(t, i) == IF i = 1 THEN 1 ELSE DelimOffset(t, i - 1) + ColWidth(t, i - 1) + 3

ReturnedOk == pc = "done" /\ result = OkResult

InWidthsPass == pc \in {"widths", "widths_row", "widths_cell"}

\* ------------------------------------------------------------ the claims
\* C1: for every rectangular table with N >= 1 rows and at least one column,
\* render on a sink that never fails writes exactly 2N + 1 newline-terminated
\* lines: N + 1 border lines and N content lines.
C1_LineCount ==
  (ReturnedOk /\ Rectangular(data) /\ Len(data) >= 1 /\ NCols(data) >= 1)
    => /\ Terminated(out)
       /\ Len(Lines(out)) = 2 * Len(data) + 1
       /\ CountLines(Lines(out), IsBorderLine) = Len(data) + 1
       /\ CountLines(Lines(out), IsContentLine) = Len(data)

\* C2: render on a table with zero rows, or on a table all of whose rows have
\* zero cells, writes zero bytes to the sink and returns success.
C2_EmptyTableWritesNothing ==
  (\A i \in 1..Len(data) : Len(data[i]) = 0)
    => /\ out = <<>>
       /\ attempts = 0
       /\ result \in {NoResult, OkResult}
       /\ (pc = "done" => result = OkResult)

C2_Witness ==
  /\ ReturnedOk
  /\ Len(data) = 2
  /\ \A i \in 1..Len(data) : Len(data[i]) = 0
  /\ out = <<>>

\* the border line of a table with at least one column
ExpectedBorder(t) ==
  <<CORNER_STR>> \o
  Concat([i \in 1..NCols(t) |-> Repeat(HORIZ_BORDER_STR, ColWidth(t, i) + 2) \o <<CORNER_STR>>])

\* the content line of row n
ExpectedContent(t, n) ==
  <<VERT_BORDER_STR>> \o
  Concat([i \in 1..NCols(t) |->
            <<SPACE_STR>> \o Display(t[n][i])
              \o Repeat(SPACE_STR, ColWidth(t, i) - Len(Display(t[n][i])) + 1)
              \o <<VERT_BORDER_STR>>])

\* C3: for every rectangular table, the lines render emits are one border
\* line, then for each row in table order that row's content line followed by
\* one border line; the content line of row n carries the rendered cells of
\* row n in column order, and nothing follows the last border line's newline.
\* (A table without a column has no line at all: C2.)
C3_LineSequence ==
  (ReturnedOk /\ Rectangular(data))
    => IF NCols(data) = 0 THEN out = <<>>
       ELSE /\ Terminated(out)
            /\ Len(Lines(out)) = 2 * Len(data) + 1
            /\ \A n \in 1..Len(Lines(out)) :
                 IF n % 2 = 1 THEN Lines(out)[n] = ExpectedBorder(data)
                 ELSE Lines(out)[n] = ExpectedContent(data, n \div 2)

\* C4: in render's output for a rectangular table, the block of column i of
\* every content line (a space, the cell's text, trailing spaces) has exactly
\* width_i + 2 bytes between its two `|`, the dash run of column i of every
\* border line has exactly width_i + 2 dashes between its two `+`, and so the
\* `|` delimiters of a content line sit at the offsets of the `+` of the
\* border lines next to it.
C4_ColumnsAlign ==
  \A n \in 1..Len(CompleteLines(out)) :
    LET L == CompleteLines(out)[n]
        delim == IF n % 2 = 1 THEN CORNER_STR ELSE VERT_BORDER_STR
    IN /\ Rectangular(data)
       /\ Len(L) = DelimOffset(data, NCols(data) + 1)
       /\ \A i \in 1..(NCols(data) + 1) : L[DelimOffset(data, i)] = delim
       /\ \A i \in 1..NCols(data) :
            LET block == SubSeq(L, DelimOffset(data, i) + 1, DelimOffset(data, i + 1) - 1)
                text == Display(data[n \div 2][i])
            IN /\ Len(block) = ColWidth(data, i) + 2
               /\ IF n % 2 = 1
                  THEN block = Repeat(HORIZ_BORDER_STR, ColWidth(data, i) + 2)
                  ELSE block = <<SPACE_STR>> \o text
                                 \o Repeat(SPACE_STR, ColWidth(data, i) + 1 - Len(text))
       /\ (n % 2 = 0 =>
             \A i \in 1..(NCols(data) + 1) :
               CompleteLines(out)[n - 1][DelimOffset(data, i)] = CORNER_STR)

C4_Witness ==
  /\ ReturnedOk
  /\ Len(data) = 2
  /\ NCols(data) = 2
  /\ Len(Lines(out)) = 5
  /\ Len(Display(data[1][1])) < Len(Display(data[2][1]))
  /\ Len(Display(data[2][2])) < Len(Display(data[1][2]))

\* C5: if a row's length differs from the first row's, render panics instead
\* of returning, before any byte has been written to the sink.
C5_RaggedPanicsBeforeOutput ==
  ~Rectangular(data)
    => /\ out = <<>>
       /\ attempts = 0
       /\ InWidthsPass \/ pc = "done"
       /\ (pc = "done" => result = PanicResult("rows must be the same length"))
       /\ (pc # "done" => result = NoResult)

C5_Witness ==
  /\ ~Rectangular(data)
  /\ pc = "done"
  /\ result.tag = "panic"
  /\ Len(data[1]) > Len(data[2])

\* C6: if a write to the sink fails during render, render returns that same
\* error and attempts no further write on the sink after the first failing
\* one; render returns success only if every write succeeded.
C6_WriteFailurePropagates ==
  /\ sinkErr # "none" => /\ pc = "done"
                         /\ result = ErrResult(sinkErr)
                         /\ attempts = failedAt
  /\ result.tag = "Err" => (sinkErr \in SinkErrors /\ result.err = sinkErr)
  /\ result = OkResult => (sinkErr = "none" /\ failedAt = 0)

C6_Witness ==
  /\ pc = "done"
  /\ result = ErrResult("WriteZero")
  /\ Len(Lines(out)) >= 2
  /\ attempts = failedAt
  /\ attempts > Len(out)

\* C7: for a rectangular table with at least one row, widths returns one entry
\* per cell of the first row, entry i being the maximum over all rows of the
\* length of the rendered text of the cell at column i (0 when every cell of
\* the column renders to the empty string); the table is left unchanged.
C7_WidthsAreColumnMaxima ==
  /\ data = table
  /\ (~InWidthsPass /\ Rectangular(data) /\ Len(data) >= 1)
       => /\ Len(widths) = Len(data[1])
          /\ \A i \in 1..Len(data[1]) : widths[i] = ColWidth(data, i)

C7_Witness ==
  /\ pc = "border"
  /\ r = 0
  /\ Len(data) = 2
  /\ NCols(data) = 2
  /\ widths[1] = Len(Display(data[1][1]))
  /\ widths[1] > Len(Display(data[2][1]))
  /\ widths[2] = 0

\* C8: rendering the same table twice, each time into a fresh sink that never
\* fails, yields byte-identical output both times.
C8_SecondRenderIdentical ==
  (call = "second" /\ ReturnedOk) => out = prevOut

C8_Witness ==
  /\ call = "second"
  /\ ReturnedOk
  /\ Len(data) = 2
  /\ Len(out) > 0
  /\ out = prevOut

\* C9: whenever the column-width vector is empty or its first entry is zero,
\* render_border_line and render_text_line write nothing and return success,
\* so render on a table whose first column renders to the empty string in
\* every row writes zero bytes whatever the other columns hold.
C9_ZeroFirstWidthWritesNothing ==
  /\ (~InWidthsPass /\ result.tag # "panic" /\ (Len(widths) = 0 \/ widths[1] = 0))
       => /\ out = <<>>
          /\ attempts = 0
          /\ result \in {NoResult, OkResult}
          /\ pc \in {"border", "text", "done"}
  /\ (pc = "done" /\ Rectangular(data) /\ NCols(data) >= 1
        /\ \A j \in 1..Len(data) : Display(data[j][1]) = <<>>)
       => (out = <<>> /\ result = OkResult)

C9_Witness ==
  /\ ReturnedOk
  /\ Len(data) = 2
  /\ NCols(data) = 2
  /\ \A j \in 1..Len(data) : Display(data[j][1]) = <<>>
  /\ Len(Display(data[2][2])) = 2
  /\ out = <<>>

\* the last n bytes of bytes
Last(bytes, n) == SubSeq(bytes, Len(bytes) - n + 1, Len(bytes))

\* C10: during render of a rectangular table, at every cell of every content
\* line the rendered text is at most as long as the column's width, so the
\* subtraction `len - string_buf.len()` never underflows and the trailing
\* spaces written number width_i - len + 1 >= 1.
C10_PaddingNeverUnderflows ==
  /\ result.tag # "wrapped"
  /\ result # PanicResult("attempt to subtract with overflow")
  /\ (pc = "text_cell" /\ c <= ZipLen(data[r], widths))
       => Len(Display(data[r][c])) <= widths[c]
  /\ pc = "text_pad"
       => /\ string_buf = Display(data[r][c])
          /\ extra = widths[c] - Len(string_buf)
          /\ extra >= 0
          /\ k <= extra + 1
          /\ Last(out, 1 + Len(string_buf) + k)
               = <<SPACE_STR>> \o string_buf \o Repeat(SPACE_STR, k)
  /\ (pc = "text_cell" /\ c > 1)
       => LET text == Display(data[r][c - 1])
              pad == widths[c - 1] - Len(text) + 1
          IN /\ pad >= 1
             /\ Last(out, 2 + Len(text) + pad)
                  = <<SPACE_STR>> \o text \o Repeat(SPACE_STR, pad) \o <<VERT_BORDER_STR>>

C10_Witness ==
  /\ pc = "text_cell"
  /\ c = 3
  /\ r = 2
  /\ widths[2] = Len(Display(data[r][2])) + 2
  /\ widths[1] = Len(Display(data[r][1]))

====
